---------------------------- MODULE Spec2Model ----------------------------
(***************************************************************************)
(* Model of VimModeManager (src/src/renderer/renderer.ts, lines 460-1427), *)
(* the modal editing engine of prompt-line, together with the part of the  *)
(* host textarea it reads and writes.                                      *)
(*                                                                         *)
(* The buffer is a sequence of one-character strings; offsets are 0-based  *)
(* as in the code, so text[i + 1] is the character at offset i.            *)
(* Every method of the class is an operator from an engine-and-widget      *)
(* record s to the record after the call.  The actions at the end of the   *)
(* module apply one event each: a key event, the host's default action     *)
(* for an unhandled key, the expiry of the pending-key timer, the          *)
(* completion of a clipboard read, setEnabled and cleanup.                 *)
(***************************************************************************)
EXTENDS Integers, Sequences, FiniteSets, TLC

VARIABLES
    textarea,           \* domManager.textarea is present
    text,               \* textarea.value
    selStart,           \* textarea.selectionStart
    selEnd,             \* textarea.selectionEnd
    selDir,             \* textarea.selectionDirection
    enabled,            \* VimModeManager.enabled
    mode,               \* state.mode
    yankBuffer,         \* state.yankBuffer
    visualStart,        \* state.visualStart (NoPos for null)
    undoStack,          \* sequence of snapshots, most recent last
    redoStack,
    pendingKey,         \* NoKey for null
    pendingKeyTimeout,  \* TRUE when the field holds a timer handle
    armed,              \* number of timers set and neither fired nor cleared
    pasteQueue,         \* clipboard reads in flight, one per p / P / Visual p
    handled,            \* what the last handleKeyDown returned
    yanked,             \* arguments of the onYank calls of the last event
    closed,             \* onWindowClose was called by the last event
    defaultKey,         \* key whose host default action is still to run
    steps,              \* events applied since the start
    watch,              \* the events since a watched sequence began
    debounced           \* a function returned by debounce (src/src/utils/utils.ts)

engineVars == <<textarea, text, selStart, selEnd, selDir, enabled, mode,
                yankBuffer, visualStart, undoStack, redoStack, pendingKey,
                pendingKeyTimeout, armed, pasteQueue, handled, yanked, closed,
                defaultKey, steps, watch>>

vars == <<engineVars, debounced>>

-----------------------------------------------------------------------------
(* Bounds of the model *)

\* longest buffer the textarea holds at the start
MaxLen == 3

\* events in one behaviour, those of a watched sequence not counted
MaxSteps == 3

\* events that may come before a watched sequence
MaxSetup == 1

\* calls of the debounced function in one behaviour
MaxCalls == 3

\* longest wait given to debounce
MaxWait == 2

\* last instant of the clock the debounced function runs on
MaxTime == 5

-----------------------------------------------------------------------------
(* Values *)

NL == "\n"

NoPos == -1

NoKey == "null"

Alphabet == {"a", NL}

Max(a, b) == IF a >= b THEN a ELSE b

Min(a, b) == IF a <= b THEN a ELSE b

\* all buffers over the alphabet of at most n characters
Texts(n) == UNION {[1..k -> Alphabet] : k \in 0..n}

\* String.prototype.slice(a, b) for 0 <= a and 0 <= b
Slice(t, a, b) == SubSeq(t, Min(a, Len(t)) + 1, Min(b, Len(t)))

\* String.prototype.slice(a)
SliceFrom(t, a) == SubSeq(t, Min(a, Len(t)) + 1, Len(t))

-----------------------------------------------------------------------------
(* The host textarea *)

\* textarea.setSelectionRange(a, b, d) for a >= 0 and b >= 0: offsets beyond
\* the text point at its end, and an end before the start collapses the
\* selection at the end offset.
SetSelectionRange(s, a, b, d) ==
    LET e == Min(b, Len(s.text))
        b0 == Min(a, Len(s.text))
    IN  [s EXCEPT !.selStart = IF e < b0 THEN e ELSE b0,
                  !.selEnd = e,
                  !.selDir = d]

\* textarea.value = t.  Every assignment in the class is followed by a
\* setSelectionRange call in the same method, which places the selection.
SetValue(s, t) == [s EXCEPT !.text = t]

-----------------------------------------------------------------------------
(* Line boundaries *)

RECURSIVE LineStartFrom(_, _)
LineStartFrom(t, start) ==
    IF start > 0 /\ ~(start <= Len(t) /\ t[start] = NL)
    THEN LineStartFrom(t, start - 1)
    ELSE start

getLineStart(s, pos) == IF ~s.textarea THEN 0 ELSE LineStartFrom(s.text, pos)

RECURSIVE LineEndFrom(_, _)
LineEndFrom(t, end) ==
    IF end < Len(t) /\ t[end + 1] # NL
    THEN LineEndFrom(t, end + 1)
    ELSE end

getLineEnd(s, pos) == IF ~s.textarea THEN 0 ELSE LineEndFrom(s.text, pos)

-----------------------------------------------------------------------------
(* Mode and cursor appearance *)

\* an updateCursorAppearance that leaves a caret at the end of the text alone
updateCursorAppearance_NoEndCase(s, m) ==
    IF ~s.textarea THEN s
    ELSE IF m = "normal"
    THEN LET pos == s.selStart
         IN  IF pos < Len(s.text)
             THEN SetSelectionRange(s, pos, pos + 1, "none")
             ELSE s
    ELSE IF m = "insert"
    THEN SetSelectionRange(s, s.selStart, s.selStart, "none")
    ELSE s

updateCursorAppearance(s, m) ==
    IF ~s.textarea THEN s
    ELSE IF m = "normal"
    THEN LET pos == s.selStart
         IN  IF pos < Len(s.text)
             THEN SetSelectionRange(s, pos, pos + 1, "none")
             ELSE IF Len(s.text) > 0
             THEN SetSelectionRange(s, pos - 1, pos, "none")
             ELSE s
    ELSE IF m = "insert"
    THEN SetSelectionRange(s, s.selStart, s.selStart, "none")
    ELSE s

setMode(s, m) == updateCursorAppearance([s EXCEPT !.mode = m], m)

-----------------------------------------------------------------------------
(* Pending key of a compound command *)

setPendingKey(s, key) ==
    [s EXCEPT !.pendingKey = key,
              !.pendingKeyTimeout = TRUE,
              !.armed = (IF s.pendingKeyTimeout THEN s.armed - 1 ELSE s.armed) + 1]

clearPendingKey(s) ==
    [s EXCEPT !.pendingKey = NoKey,
              !.pendingKeyTimeout = FALSE,
              !.armed = IF s.pendingKeyTimeout THEN s.armed - 1 ELSE s.armed]

\* a timer callback that leaves the pending key in place
pendingKeyExpired_KeepsKey(s) ==
    [s EXCEPT !.pendingKeyTimeout = FALSE,
              !.armed = s.armed - 1]

\* the callback setPendingKey hands to setTimeout
pendingKeyExpired(s) ==
    [s EXCEPT !.pendingKey = NoKey,
              !.pendingKeyTimeout = FALSE,
              !.armed = s.armed - 1]

cleanup(s) ==
    IF s.pendingKeyTimeout
    THEN [s EXCEPT !.pendingKeyTimeout = FALSE, !.armed = s.armed - 1]
    ELSE s

-----------------------------------------------------------------------------
(* Undo and redo *)

maxUndoStack == 100

Snapshot(s) == [text |-> s.text, cursor |-> s.selStart]

\* a saveState that keeps the redo stack
saveState_KeepsRedo(s) ==
    IF ~s.textarea THEN s
    ELSE LET pushed == Append(s.undoStack, Snapshot(s))
         IN  [s EXCEPT !.undoStack = IF Len(pushed) > maxUndoStack
                                     THEN Tail(pushed)
                                     ELSE pushed]

\* a saveState that never discards a snapshot
saveState_NoLimit(s) ==
    IF ~s.textarea THEN s
    ELSE [s EXCEPT !.undoStack = Append(s.undoStack, Snapshot(s)),
                   !.redoStack = <<>>]

saveState(s) ==
    IF ~s.textarea THEN s
    ELSE LET pushed == Append(s.undoStack, Snapshot(s))
         IN  [s EXCEPT !.undoStack = IF Len(pushed) > maxUndoStack
                                     THEN Tail(pushed)
                                     ELSE pushed,
                       !.redoStack = <<>>]

\* an undo that puts the text back and leaves the selection alone
undo_KeepsSelection(s) ==
    IF Len(s.undoStack) = 0 \/ ~s.textarea THEN s
    ELSE LET state == s.undoStack[Len(s.undoStack)]
             s1 == [s EXCEPT !.redoStack = Append(s.redoStack, Snapshot(s)),
                             !.undoStack = SubSeq(s.undoStack, 1, Len(s.undoStack) - 1)]
         IN  SetValue(s1, state.text)

undo(s) ==
    IF Len(s.undoStack) = 0 \/ ~s.textarea THEN s
    ELSE LET state == s.undoStack[Len(s.undoStack)]
             s1 == [s EXCEPT !.redoStack = Append(s.redoStack, Snapshot(s)),
                             !.undoStack = SubSeq(s.undoStack, 1, Len(s.undoStack) - 1)]
         IN  SetSelectionRange(SetValue(s1, state.text), state.cursor, state.cursor, "none")

\* a redo that does not save the current state onto the undo stack
redo_NoUndoPush(s) ==
    IF Len(s.redoStack) = 0 \/ ~s.textarea THEN s
    ELSE LET state == s.redoStack[Len(s.redoStack)]
             s1 == [s EXCEPT !.redoStack = SubSeq(s.redoStack, 1, Len(s.redoStack) - 1)]
         IN  SetSelectionRange(SetValue(s1, state.text), state.cursor, state.cursor, "none")

redo(s) ==
    IF Len(s.redoStack) = 0 \/ ~s.textarea THEN s
    ELSE LET state == s.redoStack[Len(s.redoStack)]
             s1 == [s EXCEPT !.undoStack = Append(s.undoStack, Snapshot(s)),
                             !.redoStack = SubSeq(s.redoStack, 1, Len(s.redoStack) - 1)]
         IN  SetSelectionRange(SetValue(s1, state.text), state.cursor, state.cursor, "none")

-----------------------------------------------------------------------------
(* Cursor movement *)

moveCursorLeft(s) ==
    IF ~s.textarea THEN s
    ELSE LET newPos == Max(0, s.selStart - 1)
         IN  updateCursorAppearance(SetSelectionRange(s, newPos, newPos, "none"), s.mode)

moveCursorRight(s) ==
    IF ~s.textarea THEN s
    ELSE LET newPos == Min(Len(s.text), s.selStart + 1)
         IN  updateCursorAppearance(SetSelectionRange(s, newPos, newPos, "none"), s.mode)

\* a moveCursorUp that goes to the start of the first line when already on it
moveCursorUp_NoFirstLineCheck(s) ==
    IF ~s.textarea THEN s
    ELSE LET pos == s.selStart
             lineStart == getLineStart(s, pos)
             prevLineEnd == Max(0, lineStart - 1)
             prevLineStart == getLineStart(s, prevLineEnd)
             prevLineLen == prevLineEnd - prevLineStart
             col == pos - lineStart
             targetCol == Max(0, Min(col, Max(0, prevLineLen - 1)))
             newPos == prevLineStart + targetCol
         IN  updateCursorAppearance(
                 SetSelectionRange(s, newPos, newPos, "none"), s.mode)

moveCursorUp(s) ==
    IF ~s.textarea THEN s
    ELSE LET pos == s.selStart
             lineStart == getLineStart(s, pos)
             prevLineEnd == lineStart - 1
             prevLineStart == getLineStart(s, prevLineEnd)
             prevLineLen == prevLineEnd - prevLineStart
             col == pos - lineStart
             targetCol == Max(0, Min(col, Max(0, prevLineLen - 1)))
             newPos == prevLineStart + targetCol
         IN  IF lineStart = 0 THEN s
             ELSE updateCursorAppearance(
                      SetSelectionRange(s, newPos, newPos, "none"), s.mode)

moveCursorDown(s) ==
    IF ~s.textarea THEN s
    ELSE LET pos == s.selStart
             lineStart == getLineStart(s, pos)
             lineEnd == getLineEnd(s, pos)
             nextLineStart == lineEnd + 1
             nextLineEnd == getLineEnd(s, nextLineStart)
             nextLen == nextLineEnd - nextLineStart
             col == pos - lineStart
             targetCol == Max(0, Min(col, Max(0, nextLen - 1)))
             newPos == nextLineStart + targetCol
         IN  IF lineEnd >= Len(s.text) THEN s
             ELSE updateCursorAppearance(
                      SetSelectionRange(s, newPos, newPos, "none"), s.mode)

moveCursorToStart(s) ==
    IF ~s.textarea THEN s
    ELSE updateCursorAppearance(SetSelectionRange(s, 0, 0, "none"), s.mode)

moveCursorToEnd(s) ==
    IF ~s.textarea THEN s
    ELSE updateCursorAppearance(
             SetSelectionRange(s, Len(s.text), Len(s.text), "none"), s.mode)

moveCursorToLineStart(s) ==
    IF ~s.textarea THEN s
    ELSE LET lineStart == getLineStart(s, s.selStart)
         IN  updateCursorAppearance(
                 SetSelectionRange(s, lineStart, lineStart, "none"), s.mode)

moveCursorToLineEnd(s) ==
    IF ~s.textarea THEN s
    ELSE LET lineEnd == getLineEnd(s, s.selStart)
         IN  updateCursorAppearance(
                 SetSelectionRange(s, lineEnd, lineEnd, "none"), s.mode)

-----------------------------------------------------------------------------
(* Text manipulation *)

\* this.onYank(t), the callback that mirrors t to the system clipboard
onYank(s, t) == [s EXCEPT !.yanked = Append(s.yanked, t)]

\* a deleteCharAtCursor that saves no snapshot
deleteCharAtCursor_NoSave(s) ==
    LET pos == s.selStart
    IN  IF ~s.textarea THEN s
        ELSE IF pos < Len(s.text)
        THEN SetSelectionRange(
                 SetValue(s, Slice(s.text, 0, pos) \o SliceFrom(s.text, pos + 1)),
                 pos, pos, "none")
        ELSE s

\* a deleteCharAtCursor that yanks the character it deletes
deleteCharAtCursor_Yanks(s) ==
    LET s1 == saveState(s)
        pos == s1.selStart
    IN  IF ~s1.textarea THEN s1
        ELSE IF pos < Len(s1.text)
        THEN onYank(
                 SetSelectionRange(
                     SetValue([s1 EXCEPT !.yankBuffer = Slice(s1.text, pos, pos + 1)],
                              Slice(s1.text, 0, pos) \o SliceFrom(s1.text, pos + 1)),
                     pos, pos, "none"),
                 Slice(s1.text, pos, pos + 1))
        ELSE s1

deleteCharAtCursor(s) ==
    LET s1 == saveState(s)
        pos == s1.selStart
    IN  IF ~s1.textarea THEN s1
        ELSE IF pos < Len(s1.text)
        THEN SetSelectionRange(
                 SetValue(s1, Slice(s1.text, 0, pos) \o SliceFrom(s1.text, pos + 1)),
                 pos, pos, "none")
        ELSE s1

\* a deleteCurrentLine that deletes the line without yanking it
deleteCurrentLine_NoYank(s) ==
    LET s1 == saveState(s)
        lineStart == getLineStart(s1, s1.selStart)
        lineEnd == getLineEnd(s1, s1.selStart)
        nextLineEnd == IF lineEnd < Len(s1.text) THEN lineEnd + 1 ELSE lineEnd
        newText == Slice(s1.text, 0, lineStart) \o SliceFrom(s1.text, nextLineEnd)
    IN  IF ~s1.textarea THEN s1
        ELSE SetSelectionRange(SetValue(s1, newText), lineStart, lineStart, "none")

deleteCurrentLine(s) ==
    LET s1 == saveState(s)
        lineStart == getLineStart(s1, s1.selStart)
        lineEnd == getLineEnd(s1, s1.selStart)
        nextLineEnd == IF lineEnd < Len(s1.text) THEN lineEnd + 1 ELSE lineEnd
        line == Slice(s1.text, lineStart, nextLineEnd)
        s2 == onYank([s1 EXCEPT !.yankBuffer = line], line)
        newText == Slice(s1.text, 0, lineStart) \o SliceFrom(s1.text, nextLineEnd)
    IN  IF ~s1.textarea THEN s1
        ELSE SetSelectionRange(SetValue(s2, newText), lineStart, lineStart, "none")

\* a yankCurrentLine that leaves out the line break that ends the line
yankCurrentLine_NoNewline(s) ==
    IF ~s.textarea THEN s
    ELSE LET line == Slice(s.text, getLineStart(s, s.selStart),
                           getLineEnd(s, s.selStart))
         IN  onYank([s EXCEPT !.yankBuffer = line], line)

yankCurrentLine(s) ==
    LET lineStart == getLineStart(s, s.selStart)
        lineEnd == getLineEnd(s, s.selStart)
        nextLineEnd == IF lineEnd < Len(s.text) THEN lineEnd + 1 ELSE lineEnd
        line == Slice(s.text, lineStart, nextLineEnd)
    IN  IF ~s.textarea THEN s
        ELSE onYank([s EXCEPT !.yankBuffer = line], line)

yankSelection(s) ==
    LET sel == Slice(s.text, Min(s.selStart, s.selEnd), Max(s.selStart, s.selEnd))
    IN  IF ~s.textarea THEN s
        ELSE onYank([s EXCEPT !.yankBuffer = sel], sel)

\* a deleteSelection that leaves the caret at the end of the deleted range
deleteSelection_CaretAtEnd(s) ==
    LET s1 == saveState(s)
        start == Min(s1.selStart, s1.selEnd)
        end == Max(s1.selStart, s1.selEnd)
        sel == Slice(s1.text, start, end)
        s2 == onYank([s1 EXCEPT !.yankBuffer = sel], sel)
    IN  IF ~s1.textarea THEN s1
        ELSE SetSelectionRange(
                 SetValue(s2, Slice(s1.text, 0, start) \o SliceFrom(s1.text, end)),
                 end, end, "none")

deleteSelection(s) ==
    LET s1 == saveState(s)
        start == Min(s1.selStart, s1.selEnd)
        end == Max(s1.selStart, s1.selEnd)
        sel == Slice(s1.text, start, end)
        s2 == onYank([s1 EXCEPT !.yankBuffer = sel], sel)
    IN  IF ~s1.textarea THEN s1
        ELSE SetSelectionRange(
                 SetValue(s2, Slice(s1.text, 0, start) \o SliceFrom(s1.text, end)),
                 start, start, "none")

insertLineBelow(s) ==
    LET s1 == saveState(s)
        lineEnd == getLineEnd(s1, s1.selStart)
        newPos == lineEnd + 1
        newText == Slice(s1.text, 0, lineEnd) \o <<NL>> \o SliceFrom(s1.text, lineEnd)
    IN  IF ~s1.textarea THEN s1
        ELSE setMode(SetSelectionRange(SetValue(s1, newText), newPos, newPos, "none"),
                     "insert")

insertLineAbove(s) ==
    LET s1 == saveState(s)
        lineStart == getLineStart(s1, s1.selStart)
        newText == Slice(s1.text, 0, lineStart) \o <<NL>> \o SliceFrom(s1.text, lineStart)
    IN  IF ~s1.textarea THEN s1
        ELSE setMode(SetSelectionRange(SetValue(s1, newText), lineStart, lineStart, "none"),
                     "insert")

-----------------------------------------------------------------------------
(* Paste: the key starts a clipboard read, the edit runs when it completes *)

\* what readClipboardText resolves to when the read fails or is unavailable
ClipNull == <<"null">>

\* the synchronous part of pasteAfterCursor, pasteBeforeCursor and
\* replaceSelectionWithYank: the async function runs up to its first await
startPaste(s, kind) == [s EXCEPT !.pasteQueue = Append(s.pasteQueue, kind)]

\* a pasteAfterCursor that inserts the yank buffer before it returns
pasteAfterCursor_Synchronous(s) ==
    LET pos == Min(Len(s.text), s.selStart + 1)
    IN  IF Len(s.yankBuffer) = 0 \/ ~s.textarea THEN s
        ELSE SetSelectionRange(
                 SetValue(saveState(s),
                          Slice(s.text, 0, pos) \o s.yankBuffer \o SliceFrom(s.text, pos)),
                 pos, pos, "none")

pasteAfterCursor(s) == startPaste(s, "after")

pasteBeforeCursor(s) == startPaste(s, "before")

replaceSelectionWithYank(s) == startPaste(s, "replace")

\* a choice of the pasted text that prefers the yank buffer to the clipboard
pasteText_YankFirst(s, clip) ==
    IF Len(s.yankBuffer) > 0 \/ clip = ClipNull THEN s.yankBuffer ELSE clip

\* const text = (clip && clip.length > 0) ? clip : this.state.yankBuffer
pasteText(s, clip) == IF clip # ClipNull /\ Len(clip) > 0 THEN clip ELSE s.yankBuffer

\* the rest of pasteAfterCursor, run when readClipboardText has resolved to clip
pasteAfterCursorResolved(s, clip) ==
    LET ptext == pasteText(s, clip)
        s1 == saveState(s)
        pos == Min(Len(s1.text), s1.selStart + 1)
    IN  IF Len(ptext) = 0 THEN s
        ELSE IF ~s1.textarea THEN s1
        ELSE SetSelectionRange(
                 SetValue(s1, Slice(s1.text, 0, pos) \o ptext \o SliceFrom(s1.text, pos)),
                 pos, pos, "none")

\* a completion of Shift+P that saves the snapshot before it looks at the text
pasteBeforeCursorResolved_SavesWhenEmpty(s, clip) ==
    LET ptext == pasteText(s, clip)
        s1 == saveState(s)
        pos == s1.selStart
    IN  IF ~s1.textarea \/ Len(ptext) = 0 THEN s1
        ELSE SetSelectionRange(
                 SetValue(s1, Slice(s1.text, 0, pos) \o ptext \o SliceFrom(s1.text, pos)),
                 pos, pos, "none")

pasteBeforeCursorResolved(s, clip) ==
    LET ptext == pasteText(s, clip)
        s1 == saveState(s)
        pos == s1.selStart
    IN  IF Len(ptext) = 0 THEN s
        ELSE IF ~s1.textarea THEN s1
        ELSE SetSelectionRange(
                 SetValue(s1, Slice(s1.text, 0, pos) \o ptext \o SliceFrom(s1.text, pos)),
                 pos, pos, "none")

replaceSelectionWithYankResolved(s, clip) ==
    LET ptext == pasteText(s, clip)
        s1 == saveState(s)
        start == Min(s1.selStart, s1.selEnd)
        end == Max(s1.selStart, s1.selEnd)
    IN  IF Len(ptext) = 0 THEN s
        ELSE IF ~s1.textarea THEN s1
        ELSE SetSelectionRange(
                 SetValue(s1, Slice(s1.text, 0, start) \o ptext \o SliceFrom(s1.text, end)),
                 start, start, "none")

-----------------------------------------------------------------------------
(* Visual selection *)

\* a setSelectionWithDirection that always sets the direction forward
setSelectionWithDirection_AlwaysForward(s, anchor, active) ==
    IF ~s.textarea THEN s
    ELSE SetSelectionRange(s, Min(anchor, active), Max(anchor, active), "forward")

setSelectionWithDirection(s, anchor, active) ==
    IF ~s.textarea THEN s
    ELSE IF active < anchor
    THEN SetSelectionRange(s, active, anchor, "backward")
    ELSE SetSelectionRange(s, anchor, active, "forward")

\* this.state.visualStart ?? textarea.selectionStart
visualAnchor(s) == IF s.visualStart # NoPos THEN s.visualStart ELSE s.selStart

\* a getVisualAnchorAndActive that always takes the end as the active end
getVisualAnchorAndActive_ActiveIsEnd(s) ==
    IF ~s.textarea THEN [anchor |-> 0, active |-> 0]
    ELSE [anchor |-> visualAnchor(s), active |-> Max(s.selStart, s.selEnd)]

getVisualAnchorAndActive(s) ==
    IF ~s.textarea THEN [anchor |-> 0, active |-> 0]
    ELSE LET anchor == visualAnchor(s)
             start == Min(s.selStart, s.selEnd)
             end == Max(s.selStart, s.selEnd)
         IN  [anchor |-> anchor, active |-> IF anchor = end THEN start ELSE end]

extendSelectionLeft(s) ==
    IF ~s.textarea \/ s.visualStart = NoPos THEN s
    ELSE LET aa == getVisualAnchorAndActive(s)
             newActive == Max(0, aa.active - 1)
         IN  setSelectionWithDirection(s, aa.anchor, newActive)

extendSelectionRight(s) ==
    IF ~s.textarea \/ s.visualStart = NoPos THEN s
    ELSE LET aa == getVisualAnchorAndActive(s)
             newActive == Min(Len(s.text), aa.active + 1)
         IN  setSelectionWithDirection(s, aa.anchor, newActive)

extendSelectionUp(s) ==
    IF ~s.textarea \/ s.visualStart = NoPos THEN s
    ELSE LET aa == getVisualAnchorAndActive(s)
             currentPos == aa.active
             currentLineStart == getLineStart(s, currentPos)
             prevLineEnd == currentLineStart - 1
             prevLineStart == getLineStart(s, prevLineEnd)
             prevLen == prevLineEnd - prevLineStart
             col == currentPos - currentLineStart
             targetCol == Max(0, Min(col, prevLen))
             newActive == prevLineStart + targetCol
         IN  IF currentLineStart = 0 THEN s
             ELSE setSelectionWithDirection(s, aa.anchor, newActive)

extendSelectionDown(s) ==
    IF ~s.textarea \/ s.visualStart = NoPos THEN s
    ELSE LET aa == getVisualAnchorAndActive(s)
             currentPos == aa.active
             currentLineStart == getLineStart(s, currentPos)
             currentLineEnd == getLineEnd(s, currentPos)
             nextLineStart == currentLineEnd + 1
             nextLineEnd == getLineEnd(s, nextLineStart)
             nextLen == nextLineEnd - nextLineStart
             col == currentPos - currentLineStart
             targetCol == Max(0, Min(col, nextLen))
             newActive == nextLineStart + targetCol
         IN  IF currentLineEnd >= Len(s.text) THEN s
             ELSE setSelectionWithDirection(s, aa.anchor, newActive)

extendSelectionUpLine(s) ==
    IF ~s.textarea \/ s.visualStart = NoPos THEN s
    ELSE LET aa == getVisualAnchorAndActive(s)
             currentLineStart == getLineStart(s, aa.active)
         IN  IF currentLineStart > 0
             THEN setSelectionWithDirection(s, aa.anchor, currentLineStart - 1)
             ELSE s

extendSelectionDownLine(s) ==
    IF ~s.textarea \/ s.visualStart = NoPos THEN s
    ELSE LET aa == getVisualAnchorAndActive(s)
             currentLineEnd == getLineEnd(s, aa.active)
         IN  IF currentLineEnd < Len(s.text)
             THEN setSelectionWithDirection(s, aa.anchor, getLineEnd(s, currentLineEnd + 1))
             ELSE s

-----------------------------------------------------------------------------
(* Key handling *)

\* keys whose KeyboardEvent.key is a name, not a single character
NamedKeys == {"Escape", "Enter", "Backspace", "Tab"}

\* key.length === 1
\* a test that takes no key for a single character
IsChar_Never(key) == FALSE

IsChar(key) == key \notin NamedKeys

\* return b, from a handler that leaves the state s
Return(s, b) == [s EXCEPT !.handled = b]

\* key === 'Escape' || (ctrl && key === '[')
IsEscape(key, ctrl) == key = "Escape" \/ (ctrl /\ key = "[")

handleNormalMode(s, key, ctrl, shift) ==
    IF ~s.textarea THEN Return(s, FALSE)
    ELSE IF s.pendingKey # NoKey
    THEN LET compound == <<s.pendingKey, key>>
             s1 == clearPendingKey(s)
         IN  CASE compound = <<"g", "g">> -> Return(moveCursorToStart(s1), TRUE)
               [] compound = <<"d", "d">> -> Return(deleteCurrentLine(s1), TRUE)
               [] compound = <<"y", "y">> -> Return(yankCurrentLine(s1), TRUE)
               [] OTHER -> Return(s1, FALSE)
    ELSE CASE key = "i" -> Return(setMode(s, "insert"), TRUE)
           [] key = "I" -> Return(setMode(moveCursorToLineStart(s), "insert"), TRUE)
           [] key = "a" -> Return(setMode(moveCursorRight(s), "insert"), TRUE)
           [] key = "A" -> Return(setMode(moveCursorToLineEnd(s), "insert"), TRUE)
           [] key = "o" -> Return(insertLineBelow(s), TRUE)
           [] key = "O" /\ shift -> Return(insertLineAbove(s), TRUE)
           [] key = "v" ->
                LET pos == s.selStart
                    s1 == [s EXCEPT !.visualStart = pos]
                    s2 == IF pos < Len(s.text)
                          THEN SetSelectionRange(s1, pos, pos + 1, "forward")
                          ELSE IF pos > 0
                          THEN SetSelectionRange(s1, pos - 1, pos, "backward")
                          ELSE SetSelectionRange(s1, pos, pos, "none")
                IN  Return(setMode(s2, "visual"), TRUE)
           [] key = "V" ->
                LET s1 == [s EXCEPT !.visualStart = getLineStart(s, s.selStart)]
                    s2 == SetSelectionRange(s1, s1.visualStart,
                                            getLineEnd(s, s.selStart), "none")
                IN  Return(setMode(s2, "visual-line"), TRUE)
           [] key = "h" -> Return(moveCursorLeft(s), TRUE)
           [] key = "j" -> Return(moveCursorDown(s), TRUE)
           [] key = "k" -> Return(moveCursorUp(s), TRUE)
           [] key = "l" -> Return(moveCursorRight(s), TRUE)
           [] key = "Backspace" -> Return(moveCursorLeft(s), TRUE)
           [] key = "G" /\ shift -> Return(moveCursorToEnd(s), TRUE)
           [] key = "x" -> Return(deleteCharAtCursor(s), TRUE)
           [] key = "u" -> Return(undo(s), TRUE)
           [] key = "U" /\ shift -> Return(redo(s), TRUE)
           [] key = "p" -> Return(pasteAfterCursor(s), TRUE)
           [] key = "P" /\ shift -> Return(pasteBeforeCursor(s), TRUE)
           [] key = "q" -> Return([s EXCEPT !.closed = TRUE], TRUE)
           [] key \in {"g", "d", "y"} -> Return(setPendingKey(s, key), TRUE)
           [] OTHER -> Return(s, IsChar(key) /\ ~ctrl)

\* a handleInsertMode that saves a snapshot on every key
handleInsertMode_SavesAlways(s, key, ctrl, shift) ==
    IF IsEscape(key, ctrl)
    THEN Return(moveCursorLeft(setMode(saveState(s), "normal")), TRUE)
    ELSE Return(saveState(s), FALSE)

handleInsertMode(s, key, ctrl, shift) ==
    IF IsEscape(key, ctrl)
    THEN Return(moveCursorLeft(setMode(saveState(s), "normal")), TRUE)
    ELSE Return(s, FALSE)

\* the switch of handleVisualMode, reached when no gg compound returned
visualKey(s, key) ==
    CASE key = "g" -> Return(setPendingKey(s, "g"), TRUE)
      [] key = "G" ->
           LET anchor == visualAnchor(s)
               endPos == Len(s.text)
           IN  Return(IF s.mode = "visual-line"
                      THEN setSelectionWithDirection(s, anchor, getLineEnd(s, endPos))
                      ELSE setSelectionWithDirection(s, anchor, endPos),
                      TRUE)
      [] key = "y" ->
           LET s1 == yankSelection(s)
               s2 == SetSelectionRange(s1, s1.selStart, s1.selStart, "none")
           IN  Return(setMode([s2 EXCEPT !.visualStart = NoPos], "normal"), TRUE)
      [] key = "d" ->
           Return(setMode([deleteSelection(s) EXCEPT !.visualStart = NoPos], "normal"),
                  TRUE)
      [] key = "p" ->
           Return(setMode([replaceSelectionWithYank(s) EXCEPT !.visualStart = NoPos],
                          "normal"),
                  TRUE)
      [] key = "h" -> Return(extendSelectionLeft(s), TRUE)
      [] key = "l" -> Return(extendSelectionRight(s), TRUE)
      [] key = "j" -> Return(IF s.mode = "visual-line"
                             THEN extendSelectionDownLine(s)
                             ELSE extendSelectionDown(s),
                             TRUE)
      [] key = "k" -> Return(IF s.mode = "visual-line"
                             THEN extendSelectionUpLine(s)
                             ELSE extendSelectionUp(s),
                             TRUE)
      [] OTHER -> Return(s, FALSE)

handleVisualMode(s, key, ctrl, shift) ==
    IF ~s.textarea THEN Return(s, FALSE)
    ELSE IF IsEscape(key, ctrl)
    THEN LET s1 == SetSelectionRange(s, s.selStart, s.selStart, "none")
         IN  Return(setMode([s1 EXCEPT !.visualStart = NoPos], "normal"), TRUE)
    ELSE IF s.pendingKey # NoKey
    THEN LET compound == <<s.pendingKey, key>>
             s1 == clearPendingKey(s)
         IN  IF compound = <<"g", "g">>
             THEN Return(setSelectionWithDirection(s1, visualAnchor(s1), 0), TRUE)
             ELSE visualKey(s1, key)
    ELSE visualKey(s, key)

\* a handleKeyDown that runs the Insert-mode handler in Normal mode as well
handleKeyDown_InsertInNormal(s, key, ctrl, shift) ==
    IF ~s.enabled THEN Return(s, FALSE)
    ELSE CASE s.mode = "normal" /\ IsEscape(key, ctrl) ->
                  handleInsertMode(s, key, ctrl, shift)
           [] s.mode = "normal" /\ ~IsEscape(key, ctrl) ->
                  handleNormalMode(s, key, ctrl, shift)
           [] s.mode = "insert" -> handleInsertMode(s, key, ctrl, shift)
           [] s.mode \in {"visual", "visual-line"} -> handleVisualMode(s, key, ctrl, shift)

\* handleKeyDown(event), for event.key, event.ctrlKey and event.shiftKey
handleKeyDown(s, key, ctrl, shift) ==
    IF ~s.enabled THEN Return(s, FALSE)
    ELSE CASE s.mode = "normal" -> handleNormalMode(s, key, ctrl, shift)
           [] s.mode = "insert" -> handleInsertMode(s, key, ctrl, shift)
           [] s.mode \in {"visual", "visual-line"} -> handleVisualMode(s, key, ctrl, shift)

setEnabled(s, on) ==
    LET s1 == [s EXCEPT !.enabled = on]
    IN  IF on THEN saveState(setMode(s1, "normal")) ELSE setMode(s1, "insert")

-----------------------------------------------------------------------------
(* The host's default action for a key the engine did not handle *)

\* keys whose default action in the textarea is modelled: typing a character,
\* typing a newline and deleting backwards
DefaultKeys == {"a", "Enter", "Backspace"}

\* the textarea replaces the selection by the typed text
hostInsert(s, t) ==
    LET start == Min(s.selStart, s.selEnd)
        end == Max(s.selStart, s.selEnd)
    IN  SetSelectionRange(
            SetValue(s, Slice(s.text, 0, start) \o t \o SliceFrom(s.text, end)),
            start + Len(t), start + Len(t), "none")

\* Backspace deletes the selection, or the character before the caret
hostBackspace(s) ==
    IF s.selStart # s.selEnd THEN hostInsert(s, <<>>)
    ELSE IF s.selStart = 0 THEN s
    ELSE SetSelectionRange(
             SetValue(s, Slice(s.text, 0, s.selStart - 1) \o SliceFrom(s.text, s.selStart)),
             s.selStart - 1, s.selStart - 1, "none")

hostDefault(s, key) ==
    IF ~s.textarea THEN s
    ELSE CASE key = "a" -> hostInsert(s, <<"a">>)
           [] key = "Enter" -> hostInsert(s, <<NL>>)
           [] key = "Backspace" -> hostBackspace(s)
           [] OTHER -> s

-----------------------------------------------------------------------------
(* debounce (src/src/utils/utils.ts): the function it returns, the timers  *)
(* that function sets, and a log of the calls made and of the runs of func *)

\* timeout === undefined
NoTimer == 0

DebounceArgs == {"a", "b"}

\* debounce(func, wait, immediate): the closure with no timer set yet, at
\* instant 0 of the clock
debounce(wait, immediate) ==
    [wait |-> wait, immediate |-> immediate, timeout |-> NoTimer,
     timers |-> {}, ids |-> 0, now |-> 0, log |-> <<>>]

\* func.apply(this, args)
func(d, args) ==
    [d EXCEPT !.log = Append(@, [kind |-> "run", args |-> args, at |-> d.now])]

\* the callback of the timer t: timeout = undefined; if (!immediate) func(args)
later(d, t) ==
    LET d1 == [d EXCEPT !.timeout = NoTimer, !.timers = @ \ {t}]
    IN  IF ~d.immediate THEN func(d1, t.args) ELSE d1

\* setTimeout(later, wait): a timer due wait after now, holding the arguments
\* of the call that set it
setTimeout(d, args) ==
    [id |-> d.ids + 1, due |-> d.now + d.wait, args |-> args]

\* a debounced function that does not clear the timer of the call before
debouncedFunction_NoClear(d, args) ==
    LET callNow == d.immediate /\ d.timeout = NoTimer
        t == setTimeout(d, args)
        d1 == [d EXCEPT !.timers = @ \cup {t},
                        !.timeout = t.id,
                        !.ids = t.id,
                        !.log = Append(@, [kind |-> "call", args |-> args,
                                           at |-> d.now])]
    IN  IF callNow THEN func(d1, args) ELSE d1

debouncedFunction(d, args) ==
    LET callNow == d.immediate /\ d.timeout = NoTimer
        t == setTimeout(d, args)
        d1 == [d EXCEPT !.timers = {u \in @ : u.id # d.timeout} \cup {t},
                        !.timeout = t.id,
                        !.ids = t.id,
                        !.log = Append(@, [kind |-> "call", args |-> args,
                                           at |-> d.now])]
    IN  IF callNow THEN func(d1, args) ELSE d1

-----------------------------------------------------------------------------
(* Events *)

Key(k) == [key |-> k, ctrl |-> FALSE, shift |-> FALSE, name |-> k]

ShiftKey(k) == [key |-> k, ctrl |-> FALSE, shift |-> TRUE, name |-> k]

\* an upper-case key typed with Caps Lock: shiftKey is false
CapsKey(k) == [key |-> k, ctrl |-> FALSE, shift |-> FALSE, name |-> "Caps-" \o k]

CtrlKey(k) == [key |-> k, ctrl |-> TRUE, shift |-> FALSE, name |-> "Ctrl-" \o k]

KeyEvents ==
    {Key(k) : k \in {"i", "a", "o", "v", "h", "j", "k", "l", "x", "u", "p", "q",
                     "g", "d", "y", "z", "Escape", "Enter", "Backspace"}}
    \cup {ShiftKey(k) : k \in {"I", "A", "O", "V", "G", "U", "P"}}
    \cup {CapsKey(k) : k \in {"O", "G", "U", "P"}}
    \cup {CtrlKey(k) : k \in {"[", "z"}}

\* what navigator.clipboard.readText may resolve to besides the yank buffer
\* that onYank mirrored: a failed read, an empty clipboard, a foreign text
OtherClips == {ClipNull, <<>>, <<"a">>}

-----------------------------------------------------------------------------
(* The state as one record, and the sequences of events that are watched *)

S == [textarea |-> textarea, text |-> text, selStart |-> selStart,
      selEnd |-> selEnd, selDir |-> selDir, enabled |-> enabled, mode |-> mode,
      yankBuffer |-> yankBuffer, visualStart |-> visualStart,
      undoStack |-> undoStack, redoStack |-> redoStack,
      pendingKey |-> pendingKey, pendingKeyTimeout |-> pendingKeyTimeout,
      armed |-> armed, pasteQueue |-> pasteQueue, handled |-> handled,
      yanked |-> yanked, closed |-> closed]

\* the outputs of an event start empty
Fresh(s) == [s EXCEPT !.handled = FALSE, !.yanked = <<>>, !.closed = FALSE]

Apply(r) ==
    /\ textarea' = r.textarea
    /\ text' = r.text
    /\ selStart' = r.selStart
    /\ selEnd' = r.selEnd
    /\ selDir' = r.selDir
    /\ enabled' = r.enabled
    /\ mode' = r.mode
    /\ yankBuffer' = r.yankBuffer
    /\ visualStart' = r.visualStart
    /\ undoStack' = r.undoStack
    /\ redoStack' = r.redoStack
    /\ pendingKey' = r.pendingKey
    /\ pendingKeyTimeout' = r.pendingKeyTimeout
    /\ armed' = r.armed
    /\ pasteQueue' = r.pasteQueue
    /\ handled' = r.handled
    /\ yanked' = r.yanked
    /\ closed' = r.closed
    /\ debounced' = debounced

\* the offset the engine moves on j and k: the start of the selection in Normal
\* mode, the active end of the selection in the Visual modes
CursorOf(s) ==
    IF s.mode \in {"visual", "visual-line"}
    THEN getVisualAnchorAndActive(s).active
    ELSE s.selStart

\* the part of a state the watched sequences record
View(s) ==
    [text |-> s.text, selStart |-> s.selStart, selEnd |-> s.selEnd,
     mode |-> s.mode, pendingKey |-> s.pendingKey, yankBuffer |-> s.yankBuffer,
     inflight |-> Len(s.pasteQueue), enabled |-> s.enabled,
     cursor |-> CursorOf(s), visualStart |-> s.visualStart,
     undoStack |-> s.undoStack, redoStack |-> s.redoStack,
     textarea |-> s.textarea]

WatchedSeqs ==
    { <<"d", "d", "p", "paste">>,
      <<"y", "y", "p", "paste">>,
      <<"x", "u", "U">>,
      <<"g", "timer", "g">>,
      <<"g", "g">>,
      <<"v", "h", "h", "h", "l">>,
      <<"Escape", "Escape">>,
      <<"Ctrl-[", "Escape">>,
      <<"enable">>,
      <<"p", "paste">>,
      <<"l", "Escape">>,
      <<"disable">>,
      <<"g", "Escape">>,
      <<"i", "a", "default", "Escape", "u">>,
      <<"u", "x", "U">>,
      <<"u", "d", "d", "U">>,
      <<"P", "paste">>,
      <<"y", "y", "x">>,
      <<"p", "x", "paste">>,
      <<"P", "l", "paste">>,
      <<"u", "U">> }

\* the names of the key events
KeyNames == {e.name : e \in KeyEvents}

\* every single key event is watched, alone and after the textarea has gone
\* absent, and so is every prefix of a watched sequence
IsWatchedPrefix(q) ==
    \/ Len(q) = 1 /\ q[1] \in KeyNames
    \/ Len(q) = 1 /\ q[1] = "detach"
    \/ Len(q) = 2 /\ q[1] = "detach" /\ q[2] \in KeyNames
    \/ \E w \in WatchedSeqs : Len(q) <= Len(w) /\ SubSeq(w, 1, Len(q)) = q

\* watch.seq: the events of the watched sequence so far; watch.pre[i]: the
\* view of the state right before event i of it; watch.clip: what the
\* clipboard read of its last completion resolved to
Idle == [seq |-> <<>>, pre |-> <<>>, clip |-> ClipNull]

\* The event called name takes the state to r and leaves the key dk for the
\* host's default action.  Either the event is one of at most MaxSteps
\* events that are not watched, or it starts or continues a watched sequence,
\* after which only the events of that sequence follow.
Event(name, r, clip, dk) ==
    /\ \/ IsWatchedPrefix(Append(watch.seq, name)) /\ steps <= MaxSetup
       \/ watch = Idle /\ steps < MaxSteps
    /\ Apply(r)
    /\ defaultKey' = dk
    /\ \E watched \in BOOLEAN :
           IF watched
           THEN /\ IsWatchedPrefix(Append(watch.seq, name))
                /\ steps <= MaxSetup
                /\ watch' = [seq |-> Append(watch.seq, name),
                             pre |-> Append(watch.pre, View(S)),
                             clip |-> clip]
                /\ steps' = steps
           ELSE /\ watch = Idle
                /\ steps < MaxSteps
                /\ watch' = Idle
                /\ steps' = steps + 1

-----------------------------------------------------------------------------
(* Initial states and actions *)

\* the engine as constructed, on a textarea holding t with the caret at c
Constructed(t, c) ==
    [textarea |-> TRUE, text |-> t, selStart |-> c, selEnd |-> c,
     selDir |-> "none", enabled |-> FALSE, mode |-> "normal", yankBuffer |-> <<>>,
     visualStart |-> NoPos, undoStack |-> <<>>, redoStack |-> <<>>,
     pendingKey |-> NoKey, pendingKeyTimeout |-> FALSE, armed |-> 0,
     pasteQueue |-> <<>>, handled |-> FALSE, yanked |-> <<>>, closed |-> FALSE]

InitTexts == Texts(MaxLen)

StartEngine(s0) ==
    /\ textarea = s0.textarea
    /\ text = s0.text
    /\ selStart = s0.selStart
    /\ selEnd = s0.selEnd
    /\ selDir = s0.selDir
    /\ enabled = s0.enabled
    /\ mode = s0.mode
    /\ yankBuffer = s0.yankBuffer
    /\ visualStart = s0.visualStart
    /\ undoStack = s0.undoStack
    /\ redoStack = s0.redoStack
    /\ pendingKey = s0.pendingKey
    /\ pendingKeyTimeout = s0.pendingKeyTimeout
    /\ armed = s0.armed
    /\ pasteQueue = s0.pasteQueue
    /\ handled = s0.handled
    /\ yanked = s0.yanked
    /\ closed = s0.closed
    /\ defaultKey = NoKey
    /\ steps = 0
    /\ watch = Idle

\* the engine starts in s0; the debounced function is no part of the engine
\* and is not called while the engine runs
Start(s0) ==
    /\ StartEngine(s0)
    /\ debounced = debounce(0, FALSE)

\* The engine as constructed, or as the renderer's initializeVimMode leaves it
\* when the window is first shown, on a textarea holding any of the texts
\* with the caret anywhere in it.
Init ==
    \E t \in InitTexts : \E c \in 0..Len(t) :
        \/ Start(Constructed(t, c))
        \/ \E on \in BOOLEAN : Start(setEnabled(Constructed(t, c), on))

\* a keydown event reaches handleKeyDown
KeyDown ==
    \E e \in KeyEvents :
        LET r == handleKeyDown(Fresh(S), e.key, e.ctrl, e.shift)
        IN  /\ defaultKey = NoKey
            /\ Event(e.name, r, ClipNull,
                     IF ~r.handled /\ e.key \in DefaultKeys /\ ~e.ctrl
                     THEN e.key
                     ELSE NoKey)

\* the textarea performs the default action of the key that was not handled
HostDefault ==
    /\ defaultKey # NoKey
    /\ Event("default", hostDefault(Fresh(S), defaultKey), ClipNull, NoKey)

\* the pending-key timer fires
TimerExpiry ==
    /\ defaultKey = NoKey
    /\ armed > 0
    /\ Event("timer", pendingKeyExpired(Fresh(S)), ClipNull, NoKey)

\* the clipboard read of a paste in flight resolves
PasteCompletion ==
    \E i \in 1..Len(pasteQueue), clip \in OtherClips \cup {yankBuffer} :
        LET kind == pasteQueue[i]
            s1 == [Fresh(S) EXCEPT !.pasteQueue =
                       SubSeq(pasteQueue, 1, i - 1)
                       \o SubSeq(pasteQueue, i + 1, Len(pasteQueue))]
            r == CASE kind = "after" -> pasteAfterCursorResolved(s1, clip)
                   [] kind = "before" -> pasteBeforeCursorResolved(s1, clip)
                   [] kind = "replace" -> replaceSelectionWithYankResolved(s1, clip)
        IN  /\ defaultKey = NoKey
            /\ Event("paste", r, clip, NoKey)

\* the renderer applies the vim.enabled setting
SetEnabled ==
    \E on \in BOOLEAN :
        /\ defaultKey = NoKey
        /\ Event(IF on THEN "enable" ELSE "disable", setEnabled(Fresh(S), on),
                 ClipNull, NoKey)

\* the renderer's cleanup
Cleanup ==
    /\ defaultKey = NoKey
    /\ Event("cleanup", cleanup(Fresh(S)), ClipNull, NoKey)

Next ==
    \/ KeyDown
    \/ HostDefault
    \/ TimerExpiry
    \/ PasteCompletion
    \/ SetEnabled
    \/ Cleanup

Spec == Init /\ [][Next]_vars

-----------------------------------------------------------------------------
(* The engine while DomManager's reference to the textarea comes and goes *)

\* domManager.textarea is null before initializeElements has run and is a
\* public field that may be null whenever the engine reads it
TextareaChange ==
    \E present \in BOOLEAN :
        /\ defaultKey = NoKey
        /\ textarea # present
        /\ Event(IF present THEN "attach" ELSE "detach",
                 [Fresh(S) EXCEPT !.textarea = present], ClipNull, NoKey)

\* the engine as constructed on a DomManager whose elements are not
\* initialized yet, or any initial state of Spec
InitDetached ==
    \/ Init
    \/ \E t \in InitTexts : \E c \in 0..Len(t) :
           Start([Constructed(t, c) EXCEPT !.textarea = FALSE])

NextDetached == Next \/ TextareaChange

SpecDetached == InitDetached /\ [][NextDetached]_vars

-----------------------------------------------------------------------------
(* The engine with an undo stack that is nearly full *)

\* snapshots on the undo stack at the start of SpecFull
FullStart == maxUndoStack - 1

\* the x key pressed n times
RECURSIVE PressX(_, _)
PressX(s, n) ==
    IF n = 0 THEN s
    ELSE PressX(handleKeyDown(Fresh(s), "x", FALSE, FALSE), n - 1)

\* The x key pressed n times, n >= MaxLen.  After MaxLen presses nothing is
\* left at or after the cursor, and every further press only saves one more
\* snapshot of the same state.
PressXMany(s, n) ==
    LET r == PressX(s, MaxLen)
    IN  [r EXCEPT !.undoStack =
            r.undoStack \o [i \in 1..(n - MaxLen) |-> Snapshot(r)]]

\* The engine enabled on any of the texts, after x was pressed until the undo
\* stack holds FullStart snapshots.
InitFull ==
    \E t \in InitTexts : \E c \in 0..Len(t) :
        Start(PressXMany(setEnabled(Constructed(t, c), TRUE), FullStart - 1))

SpecFull == InitFull /\ [][Next]_vars

-----------------------------------------------------------------------------
(* The engine enabled on the buffer "abcdefgh" with the cursor at offset 5 *)

Abcdefgh == <<"a", "b", "c", "d", "e", "f", "g", "h">>

InitExample == Start(setEnabled(Constructed(Abcdefgh, 5), TRUE))

SpecExample == InitExample /\ [][Next]_vars

-----------------------------------------------------------------------------
(* A debounced function, called up to MaxCalls times while the clock runs  *)
(* to MaxTime.  The event loop runs the callback of a timer at the instant *)
(* the timer is due: while a timer is due no time passes and no call is    *)
(* made.                                                                   *)

TimerDue == \E t \in debounced.timers : t.due <= debounced.now

CallsMade == Cardinality({i \in 1..Len(debounced.log) : debounced.log[i].kind = "call"})

\* debounce(fn, wait) or debounce(fn, wait, immediate) has returned; the
\* engine stays as constructed
InitDebounce ==
    /\ StartEngine(Constructed(<<>>, 0))
    /\ \E wait \in 0..MaxWait, immediate \in BOOLEAN :
           debounced = debounce(wait, immediate)

\* the debounced function is called
DebounceCall ==
    \E args \in DebounceArgs :
        /\ ~TimerDue
        /\ CallsMade < MaxCalls
        /\ debounced.now + debounced.wait <= MaxTime
        /\ debounced' = debouncedFunction(debounced, args)
        /\ UNCHANGED engineVars

\* a timer is due and its callback runs
DebounceTimer ==
    \E t \in debounced.timers :
        /\ t.due <= debounced.now
        /\ debounced' = later(debounced, t)
        /\ UNCHANGED engineVars

\* the clock advances
DebounceTick ==
    /\ ~TimerDue
    /\ debounced.now < MaxTime
    /\ debounced' = [debounced EXCEPT !.now = @ + 1]
    /\ UNCHANGED engineVars

NextDebounce ==
    \/ DebounceCall
    \/ DebounceTimer
    \/ DebounceTick

\* time passes and due callbacks run
SpecDebounce ==
    /\ InitDebounce
    /\ [][NextDebounce]_vars
    /\ WF_vars(DebounceTimer)
    /\ WF_vars(DebounceTick)

-----------------------------------------------------------------------------
(* The engine under the keys that enter and leave the Visual modes and     *)
(* extend the selection, in sequences of any length                        *)

VisualKeyEvents ==
    {Key(k) : k \in {"v", "h", "j", "k", "l", "g", "Escape"}}
    \cup {ShiftKey(k) : k \in {"V", "G"}}

\* the engine enabled on any of the texts, as it is or after one x, which
\* can leave the caret at the end of a buffer that is not empty
InitVisual ==
    \E t \in InitTexts : \E c \in 0..Len(t) : \E n \in 0..1 :
        Start(PressX(setEnabled(Constructed(t, c), TRUE), n))

VisualKeyDown ==
    \E e \in VisualKeyEvents :
        /\ Apply(handleKeyDown(Fresh(S), e.key, e.ctrl, e.shift))
        /\ UNCHANGED <<defaultKey, steps, watch>>

VisualTimerExpiry ==
    /\ armed > 0
    /\ Apply(pendingKeyExpired(Fresh(S)))
    /\ UNCHANGED <<defaultKey, steps, watch>>

NextVisual == VisualKeyDown \/ VisualTimerExpiry

SpecVisual == InitVisual /\ [][NextVisual]_vars

-----------------------------------------------------------------------------
(* The engine in Normal mode under p, Shift+P and u, where every clipboard  *)
(* read completes.  Up to MaxSteps keys are pressed; watch holds the last  *)
(* two events.                                                             *)

PasteKeyEvents == {Key("p"), Key("u"), ShiftKey("P")}

\* the y key pressed twice
PressYY(s) ==
    handleKeyDown(Fresh(handleKeyDown(Fresh(s), "y", FALSE, FALSE)), "y", FALSE, FALSE)

\* the engine enabled on any of the texts, with the yank buffer empty or
\* holding the line that yy yanked
InitPaste ==
    \E t \in InitTexts : \E c \in 0..Len(t) :
        LET s0 == setEnabled(Constructed(t, c), TRUE)
        IN  Start(s0) \/ Start(PressYY(s0))

\* the last two of the events
LastTwo(q) == IF Len(q) <= 2 THEN q ELSE SubSeq(q, Len(q) - 1, Len(q))

Remember(name, clip) ==
    watch' = [seq |-> LastTwo(Append(watch.seq, name)),
              pre |-> LastTwo(Append(watch.pre, View(S))),
              clip |-> clip]

PasteKeyDown ==
    \E e \in PasteKeyEvents :
        /\ steps < MaxSteps
        /\ \E r \in {handleKeyDown(Fresh(S), e.key, e.ctrl, e.shift)} : Apply(r)
        /\ Remember(e.name, ClipNull)
        /\ steps' = steps + 1
        /\ UNCHANGED defaultKey

\* the clipboard read of a paste in flight resolves
PasteDone ==
    \E i \in 1..Len(pasteQueue), clip \in OtherClips \cup {yankBuffer} :
        LET kind == pasteQueue[i]
            s1 == [Fresh(S) EXCEPT !.pasteQueue =
                       SubSeq(pasteQueue, 1, i - 1)
                       \o SubSeq(pasteQueue, i + 1, Len(pasteQueue))]
        IN  /\ \E r \in {CASE kind = "after" -> pasteAfterCursorResolved(s1, clip)
                           [] kind = "before" -> pasteBeforeCursorResolved(s1, clip)
                           [] kind = "replace" ->
                                replaceSelectionWithYankResolved(s1, clip)} :
                   Apply(r)
            /\ Remember("paste", clip)
            /\ UNCHANGED <<defaultKey, steps>>

NextPaste == PasteKeyDown \/ PasteDone

\* a clipboard read that was started settles
SpecPaste == InitPaste /\ [][NextPaste]_vars /\ WF_vars(PasteDone)

-----------------------------------------------------------------------------
(* Properties *)

\* the watched sequence of events that has just run
Ran(q) == watch.seq = q

\* the recorded state before the i-th event of the watched sequence
Pre(i) == watch.pre[i]

\* an enabled engine in Normal mode with no pending key and no paste in flight
NormalStart(v) ==
    /\ v.enabled
    /\ v.mode = "normal"
    /\ v.pendingKey = NoKey
    /\ v.inflight = 0

\* the number of line breaks of t before offset pos
LineOf(t, pos) == Cardinality({i \in 1..Min(pos, Len(t)) : t[i] = NL})

LineStartOf(t, pos) == LineStartFrom(t, pos)

LineEndOf(t, pos) == LineEndFrom(t, pos)

HasNL(t) == \E i \in 1..Len(t) : t[i] = NL

\* C1: after every event the selection is a range of the buffer,
\* 0 <= selectionStart <= selectionEnd <= length of the text.
C1_SelectionInRange ==
    /\ 0 <= selStart
    /\ selStart <= selEnd
    /\ selEnd <= Len(text)

\* an undo has shortened the text and left the cursor at the end of the buffer
C1_Witness ==
    /\ Len(redoStack) > 0
    /\ Len(redoStack[Len(redoStack)].text) > Len(text)
    /\ selEnd = Len(text)

\* C2: in Normal mode dd and then p, with the paste resolved from a clipboard
\* that mirrors the yank, gives back the original buffer with the cursor on
\* the original line.
C2_DeleteLineThenPasteRestores ==
    (/\ Ran(<<"d", "d", "p", "paste">>)
     /\ NormalStart(Pre(1))
     /\ watch.clip = yankBuffer)
    => /\ text = Pre(1).text
       /\ LineOf(text, selStart) = LineOf(Pre(1).text, Pre(1).selStart)

\* C3: in Normal mode yy and then p on a line that is not the last one puts a
\* copy of the line immediately below it, and the buffer grows by the length of
\* the line plus one.
C3_YankLineThenPasteDuplicates ==
    (/\ Ran(<<"y", "y", "p", "paste">>)
     /\ NormalStart(Pre(1))
     /\ watch.clip = yankBuffer
     /\ LineEndOf(Pre(1).text, Pre(1).selStart) < Len(Pre(1).text))
    => LET t0 == Pre(1).text
           ls == LineStartOf(t0, Pre(1).selStart)
           le == LineEndOf(t0, Pre(1).selStart)
           line == Slice(t0, ls, le)
       IN  /\ text = Slice(t0, 0, le + 1) \o line \o <<NL>> \o SliceFrom(t0, le + 1)
           /\ Len(text) = Len(t0) + Len(line) + 1

\* C4: in Normal mode x and then u gives back the text and the selectionStart
\* from before x; x, u and then Shift+U gives the text as it was right after x.
C4_DeleteCharUndoRedo ==
    /\ (Ran(<<"x", "u">>) /\ NormalStart(Pre(1)))
       => /\ text = Pre(1).text
          /\ selStart = Pre(1).selStart
    /\ (Ran(<<"x", "u", "U">>) /\ NormalStart(Pre(1)))
       => text = Pre(2).text

\* x has deleted a character, u and Shift+U have run
C4_Witness ==
    /\ Ran(<<"x", "u", "U">>)
    /\ NormalStart(Pre(1))
    /\ Pre(1).selStart > 0
    /\ Pre(2).text # Pre(1).text
    /\ Pre(3).text = Pre(1).text

\* C5: the undo stack never holds more than maxUndoStack snapshots, and a
\* snapshot saved onto a full stack discards the oldest one and keeps the rest
\* in order.
C5_UndoStackBounded ==
    /\ [](Len(undoStack) <= maxUndoStack)
    /\ [][(/\ Len(undoStack) = maxUndoStack
           /\ undoStack' # undoStack
           /\ Len(undoStack') >= maxUndoStack)
          => /\ Len(undoStack') = maxUndoStack
             /\ SubSeq(undoStack', 1, maxUndoStack - 1) = Tail(undoStack)]_vars

\* the stack is full and the two oldest snapshots of the start are gone
C5_Witness ==
    /\ Len(undoStack) = maxUndoStack
    /\ \E t \in InitTexts : \E c \in 0..Len(t) :
         LET u0 == PressXMany(setEnabled(Constructed(t, c), TRUE),
                              FullStart - 1).undoStack
         IN  /\ u0[2] # u0[3]
             /\ SubSeq(undoStack, 1, FullStart - 2) = SubSeq(u0, 3, FullStart)

\* C6: in Normal mode g, the expiry of the pending-key timer and g again leave
\* the cursor where it was, the second g only starting a new pending wait; g g
\* with no expiry in between puts the cursor at offset 0.
C6_PendingKeyExpiry ==
    /\ (Ran(<<"g", "timer", "g">>) /\ NormalStart(Pre(1)))
       => /\ selStart = Pre(1).selStart
          /\ selEnd = Pre(1).selEnd
          /\ pendingKey = "g"
          /\ pendingKeyTimeout
    /\ (Ran(<<"g", "g">>) /\ NormalStart(Pre(1)))
       => /\ selStart = 0
          /\ pendingKey = NoKey

\* g, the expiry and g have run with the cursor away from the buffer start
C6_Witness ==
    /\ Ran(<<"g", "timer", "g">>)
    /\ NormalStart(Pre(1))
    /\ Pre(1).selStart > 0
    /\ Pre(2).pendingKey = "g"
    /\ Pre(3).pendingKey = NoKey

\* the start of the example: Normal mode on "abcdefgh" with the cursor at 5
ExampleStart(v) ==
    /\ NormalStart(v)
    /\ v.text = Abcdefgh
    /\ v.selStart = 5

\* C7: Visual mode entered at offset 5 of "abcdefgh" and h pressed three times
\* selects [2, 6); l then moves the start of the selection one back toward 6
\* and leaves the bound on the anchor side where it was.
C7_VisualLeftThenRight ==
    /\ (Ran(<<"v", "h", "h", "h">>) /\ ExampleStart(Pre(1)))
       => /\ selStart = 2
          /\ selEnd = 6
    /\ (Ran(<<"v", "h", "h", "h", "l">>) /\ ExampleStart(Pre(1)))
       => /\ selStart = Pre(5).selStart + 1
          /\ selEnd = Pre(5).selEnd

\* C8: k with the cursor on the first line, and j with the cursor on the last
\* line, change neither the buffer nor the selection, in Normal mode and in
\* the Visual modes.
C8_VerticalMoveAtEdge ==
    /\ (/\ Ran(<<"k">>)
        /\ Pre(1).enabled
        /\ Pre(1).mode \in {"normal", "visual", "visual-line"}
        /\ LineStartOf(Pre(1).text, Pre(1).cursor) = 0)
       => /\ text = Pre(1).text
          /\ selStart = Pre(1).selStart
          /\ selEnd = Pre(1).selEnd
    /\ (/\ Ran(<<"j">>)
        /\ Pre(1).enabled
        /\ Pre(1).mode \in {"normal", "visual", "visual-line"}
        /\ LineEndOf(Pre(1).text, Pre(1).cursor) = Len(Pre(1).text))
       => /\ text = Pre(1).text
          /\ selStart = Pre(1).selStart
          /\ selEnd = Pre(1).selEnd

\* k was pressed in a Visual mode with the cursor on the first line of a
\* buffer of more than one line
C8_Witness ==
    /\ Ran(<<"k">>)
    /\ Pre(1).enabled
    /\ Pre(1).mode \in {"visual", "visual-line"}
    /\ HasNL(Pre(1).text)
    /\ LineStartOf(Pre(1).text, Pre(1).cursor) = 0

\* C9: dd on a buffer of a single line with no line break leaves the buffer
\* empty, the cursor at offset 0 with an empty selection, and the former line
\* in the yank buffer.
C9_DeleteOnlyLine ==
    (/\ Ran(<<"d", "d">>)
     /\ NormalStart(Pre(1))
     /\ ~HasNL(Pre(1).text))
    => /\ text = <<>>
       /\ selStart = 0
       /\ selEnd = 0
       /\ yankBuffer = Pre(1).text

\* dd has run on a single line that was not empty
C9_Witness ==
    /\ Ran(<<"d", "d">>)
    /\ NormalStart(Pre(1))
    /\ ~HasNL(Pre(1).text)
    /\ Len(Pre(1).text) > 1

\* C10: once Escape has brought the engine from Insert, Visual or VisualLine
\* mode into Normal mode, a second Escape leaves the text, the selection and
\* the mode as they were.
C10_SecondEscape ==
    (/\ \/ Ran(<<"Escape", "Escape">>)
        \/ Ran(<<"Ctrl-[", "Escape">>)
     /\ Pre(1).enabled
     /\ Pre(1).mode \in {"insert", "visual", "visual-line"})
    => /\ Pre(2).mode = "normal"
       /\ mode = "normal"
       /\ text = Pre(2).text
       /\ selStart = Pre(2).selStart
       /\ selEnd = Pre(2).selEnd

\* the first Escape has left Insert mode and moved the cursor, the second has run
C10_Witness ==
    /\ Ran(<<"Escape", "Escape">>)
    /\ Pre(1).enabled
    /\ Pre(1).mode = "insert"
    /\ Pre(2).selStart # Pre(1).selStart

\* C11: whenever the engine is disabled, a freshly constructed engine
\* included, the mode is Insert; right after setEnabled(true) it is Normal.
C11_DisabledIsInsert ==
    /\ ~enabled => mode = "insert"
    /\ Ran(<<"enable">>) => (enabled /\ mode = "normal")

\* C12: in Normal mode with g, d or y pending, a second key that does not
\* complete gg, dd or yy is consumed: handleKeyDown returns true, and buffer,
\* selection and mode stay as they were.
C12_UnmatchedCompoundConsumed ==
    \A k \in KeyNames :
        (/\ Ran(<<k>>)
         /\ Pre(1).enabled
         /\ Pre(1).mode = "normal"
         /\ Pre(1).pendingKey \in {"g", "d", "y"}
         /\ Pre(1).pendingKey # k)
        => /\ handled
           /\ text = Pre(1).text
           /\ selStart = Pre(1).selStart
           /\ selEnd = Pre(1).selEnd
           /\ mode = Pre(1).mode

\* the single characters of KeyEvents, typed without Ctrl, that the switch of
\* handleNormalMode has no command for
UnmappedChars == {"z", "Caps-O", "Caps-G", "Caps-U", "Caps-P"}

\* C13: in Normal mode with no pending key, a single character without Ctrl
\* that is no command is reported handled, so that it never reaches the
\* textarea, and it changes neither buffer, selection, mode, yank buffer nor
\* the undo and redo stacks.
C13_UnmappedCharConsumed ==
    \A k \in UnmappedChars :
        (/\ Ran(<<k>>)
         /\ Pre(1).enabled
         /\ Pre(1).mode = "normal"
         /\ Pre(1).pendingKey = NoKey)
        => /\ handled
           /\ text = Pre(1).text
           /\ selStart = Pre(1).selStart
           /\ selEnd = Pre(1).selEnd
           /\ mode = Pre(1).mode
           /\ yankBuffer = Pre(1).yankBuffer
           /\ undoStack = Pre(1).undoStack
           /\ redoStack = Pre(1).redoStack

\* z was pressed in Normal mode on a buffer that is not empty, after an edit
C13_Witness ==
    /\ Ran(<<"z">>)
    /\ Pre(1).enabled
    /\ Pre(1).mode = "normal"
    /\ Pre(1).pendingKey = NoKey
    /\ Len(Pre(1).text) > 0
    /\ Len(Pre(1).undoStack) > 1

\* C14: in Insert mode handleKeyDown returns true for Escape and Ctrl+[ only;
\* for every other key it returns false and changes neither the engine's
\* state (mode, pending key, yank buffer, anchor, undo and redo stacks) nor
\* the textarea's text and selection.
C14_InsertPassesThrough ==
    \A k \in KeyNames :
        (/\ Ran(<<k>>)
         /\ Pre(1).enabled
         /\ Pre(1).mode = "insert")
        => /\ handled <=> k \in {"Escape", "Ctrl-["}
           /\ k \notin {"Escape", "Ctrl-["}
              => /\ mode = Pre(1).mode
                 /\ pendingKey = Pre(1).pendingKey
                 /\ yankBuffer = Pre(1).yankBuffer
                 /\ visualStart = Pre(1).visualStart
                 /\ undoStack = Pre(1).undoStack
                 /\ redoStack = Pre(1).redoStack
                 /\ text = Pre(1).text
                 /\ selStart = Pre(1).selStart
                 /\ selEnd = Pre(1).selEnd

\* a was pressed in Insert mode and is left to the textarea
C14_Witness ==
    /\ Ran(<<"a">>)
    /\ Pre(1).enabled
    /\ Pre(1).mode = "insert"
    /\ ~handled
    /\ defaultKey = "a"

\* what saveState leaves on the undo stack st when it saves the snapshot snap
Saved(st, snap) ==
    IF Len(st) >= maxUndoStack THEN Append(Tail(st), snap) ELSE Append(st, snap)

\* C15: in Insert mode with the caret at offset c, c = length of the buffer
\* included, Escape or Ctrl+[ saves one snapshot, sets the mode to Normal and
\* leaves the cursor at max(0, c - 1).
C15_EscapeFromInsert ==
    \A k \in {"Escape", "Ctrl-["} :
        (/\ Ran(<<k>>)
         /\ Pre(1).enabled
         /\ Pre(1).mode = "insert")
        => /\ undoStack = Saved(Pre(1).undoStack,
                                [text |-> Pre(1).text, cursor |-> Pre(1).selStart])
           /\ mode = "normal"
           /\ selStart = Max(0, Pre(1).selStart - 1)

\* C16: in Normal mode A switches to Insert mode with an empty selection at
\* the end of the current line: the offset of the line break that ends it, or
\* the length of the buffer on the last line.
C16_AppendAtLineEnd ==
    (/\ Ran(<<"A">>)
     /\ NormalStart(Pre(1)))
    => /\ mode = "insert"
       /\ selStart = LineEndOf(Pre(1).text, Pre(1).selStart)
       /\ selEnd = selStart

\* C17: in Normal mode with the cursor at offset c, a switches to Insert mode
\* with an empty selection at min(length, c + 1), also when the cursor is on
\* the last character of the buffer.
C17_AppendAfterCursor ==
    (/\ Ran(<<"a">>)
     /\ NormalStart(Pre(1)))
    => /\ mode = "insert"
       /\ selStart = Min(Len(Pre(1).text), Pre(1).selStart + 1)
       /\ selEnd = selStart

\* the Normal-mode cursor for a caret put at offset pos of the text t: on the
\* character at pos, or on the last character when pos is the end of t
BlockAt(t, pos) == IF pos < Len(t) THEN pos ELSE Max(0, Len(t) - 1)

\* C18: in Visual or VisualLine mode Escape or Ctrl+[ switches to Normal,
\* clears the anchor and puts the cursor at the active end of the selection,
\* the endpoint that is not the anchor, for forward and backward selections.
\* The cursor counts as at the active end when it is on that offset or, the
\* end of a range being exclusive, on the character right before it.
C18_EscapeFromVisual ==
    \A q \in {<<"Escape">>, <<"Ctrl-[">>, <<"l", "Escape">>} :
        (/\ Ran(q)
         /\ Pre(1).enabled
         /\ Pre(1).mode \in {"visual", "visual-line"})
        => /\ mode = "normal"
           /\ visualStart = NoPos
           /\ \/ selStart = BlockAt(text, Pre(Len(q)).cursor)
              \/ /\ Pre(Len(q)).cursor = Pre(Len(q)).selEnd
                 /\ selStart = Max(Pre(Len(q)).selStart, Pre(Len(q)).cursor - 1)

\* the text a completed paste of the watched sequence has put in: the
\* clipboard's, or the yank buffer when the clipboard read gave nothing
PastedText ==
    IF watch.clip # ClipNull /\ Len(watch.clip) > 0
    THEN watch.clip
    ELSE yankBuffer

\* C19: in Visual or VisualLine mode with the selection [s, e), p gives, once
\* the clipboard read has completed, the buffer original[0..s) + pasted text +
\* original[e..), and the mode is Normal.  The pasted text is the clipboard's,
\* or the yank buffer when the clipboard has none; the case where both are
\* empty is left out.
C19_VisualPasteReplaces ==
    (/\ Ran(<<"p", "paste">>)
     /\ Pre(1).enabled
     /\ Pre(1).mode \in {"visual", "visual-line"}
     /\ Pre(1).inflight = 0
     /\ Len(PastedText) > 0)
    => LET t0 == Pre(1).text
           pasted == PastedText
       IN  /\ mode = "normal"
           /\ text = Slice(t0, 0, Pre(1).selStart) \o pasted
                     \o SliceFrom(t0, Pre(1).selEnd)

\* C20: in Visual or VisualLine mode with the selection [s, e), d saves one
\* snapshot of the state before the deletion, sets the yank buffer to
\* original[s..e), removes that range from the buffer, clears the anchor and
\* switches to Normal with the cursor at s, or on the last character when s
\* is the end of the buffer.
C20_VisualDelete ==
    (/\ Ran(<<"d">>)
     /\ Pre(1).enabled
     /\ Pre(1).mode \in {"visual", "visual-line"})
    => LET t0 == Pre(1).text
           s == Pre(1).selStart
           e == Pre(1).selEnd
       IN  /\ undoStack = Saved(Pre(1).undoStack, [text |-> t0, cursor |-> s])
           /\ yankBuffer = Slice(t0, s, e)
           /\ text = Slice(t0, 0, s) \o SliceFrom(t0, e)
           /\ visualStart = NoPos
           /\ mode = "normal"
           /\ selStart = BlockAt(text, s)

\* d has deleted a selection of at least two characters in a Visual mode
C20_Witness ==
    /\ Ran(<<"d">>)
    /\ Pre(1).enabled
    /\ Pre(1).mode \in {"visual", "visual-line"}
    /\ Pre(1).selEnd - Pre(1).selStart >= 2
    /\ Len(text) > 0

\* C21: on a buffer that is not empty the selection of Visual mode is never
\* empty: right after v it covers the character under the cursor, with the
\* anchor at the cursor, and it stays at least one character wide after any
\* h, j, k or l.
C21_VisualNeverEmpty ==
    /\ (Ran(<<"v">>) /\ NormalStart(Pre(1)) /\ Len(text) > 0)
       => /\ mode = "visual"
          /\ visualStart = Pre(1).selStart
          /\ selStart <= Pre(1).selStart
          /\ Pre(1).selStart < selEnd
    /\ \A k \in {"h", "j", "k", "l"} :
         (/\ Ran(<<k>>)
          /\ Pre(1).enabled
          /\ Pre(1).mode = "visual"
          /\ Pre(1).selStart < Pre(1).selEnd)
         => selStart < selEnd

\* C22: after setEnabled(false) no compound key is pending and no pending-key
\* timer is armed, whatever came before the call.
C22_DisableClearsPending ==
    Ran(<<"disable">>)
    => /\ pendingKey = NoKey
       /\ ~pendingKeyTimeout
       /\ armed = 0

\* C23: right after a key event that changes the mode no key is pending: a
\* key left pending in the old mode is not pending in the new one.
C23_ModeChangeClearsPending ==
    \A q \in {<<k>> : k \in KeyNames} \cup {<<"g", "Escape">>} :
        (/\ Ran(q)
         /\ Pre(1).enabled
         /\ mode # Pre(Len(q)).mode)
        => pendingKey = NoKey

\* the keys that enter Insert mode from Normal mode
InsertKeys == {"i", "I", "a", "A", "o", "O"}

\* C24: a snapshot is saved when Insert mode is entered (i, I, a, A, o, O) and
\* when it is left, so that after one Insert session (i, a character typed,
\* Escape) a single u in Normal mode gives back the text from before the
\* session.
C24_InsertSessionIsOneUndo ==
    /\ \A k \in InsertKeys :
         (Ran(<<k>>) /\ NormalStart(Pre(1)))
         => /\ mode = "insert"
            /\ Len(Pre(1).undoStack) < maxUndoStack
               => Len(undoStack) = Len(Pre(1).undoStack) + 1
    /\ (Ran(<<"i", "a", "default", "Escape", "u">>) /\ NormalStart(Pre(1)))
       => /\ Pre(4).text # Pre(1).text
          /\ text = Pre(1).text

\* C25: every save of a snapshot empties the redo stack, so that after an
\* undo followed by a command that saves a snapshot Shift+U changes nothing.
C25_SaveClearsRedo ==
    /\ \A k \in KeyNames \ {"u", "U"} :
         (Ran(<<k>>) /\ Pre(1).enabled /\ undoStack # Pre(1).undoStack)
         => redoStack = <<>>
    /\ \A q \in {<<"enable">>, <<"p", "paste">>, <<"P", "paste">>} :
         (Ran(q) /\ undoStack # Pre(Len(q)).undoStack)
         => redoStack = <<>>
    /\ \A q \in {<<"u", "x", "U">>, <<"u", "d", "d", "U">>} :
         (Ran(q) /\ NormalStart(Pre(1)))
         => /\ text = Pre(Len(q)).text
            /\ selStart = Pre(Len(q)).selStart
            /\ selEnd = Pre(Len(q)).selEnd
            /\ undoStack = Pre(Len(q)).undoStack
            /\ redoStack = <<>>

\* u has undone something, x has then deleted a character, Shift+U has run
C25_Witness ==
    /\ Ran(<<"u", "x", "U">>)
    /\ NormalStart(Pre(1))
    /\ Len(Pre(2).redoStack) > 0
    /\ Pre(3).text # Pre(2).text

\* the watched sequences that end with the completion of a paste
PasteRuns ==
    { <<"p", "paste">>, <<"P", "paste">>,
      <<"d", "d", "p", "paste">>, <<"y", "y", "p", "paste">> }

\* t1 is t0 with x put in place of some range of it, an empty range when
\* inPlace is false
Spliced(t0, t1, x, inPlace) ==
    \E a \in 0..Len(t0) : \E b \in a..Len(t0) :
        /\ inPlace \/ a = b
        /\ t1 = Slice(t0, 0, a) \o x \o SliceFrom(t0, b)

\* C26: for p, P and Visual p the text put into the buffer is the yank
\* buffer when the clipboard read fails, is unavailable or gives the empty
\* string, and the clipboard's text when that is not empty; a failed read
\* leaves the selection within the buffer.
C26_ClipboardOrYank ==
    \A q \in PasteRuns :
        (/\ Ran(q)
         /\ Pre(1).enabled
         /\ Pre(1).mode \in {"normal", "visual", "visual-line"}
         /\ Pre(1).pendingKey = NoKey
         /\ Pre(1).inflight = 0)
        => /\ Spliced(Pre(Len(q)).text, text, PastedText, Pre(1).mode # "normal")
           /\ 0 <= selStart
           /\ selStart <= selEnd
           /\ selEnd <= Len(text)

\* the clipboard read has failed and the yanked line was pasted instead
C26_Witness ==
    /\ Ran(<<"y", "y", "p", "paste">>)
    /\ NormalStart(Pre(1))
    /\ watch.clip = ClipNull
    /\ Len(yankBuffer) > 0
    /\ Len(text) = Len(Pre(4).text) + Len(yankBuffer)

\* the cursor c is on the line of t that starts at ts and is tlen long, at
\* the column col of the line it came from clamped to tlen, and not past the
\* line break that ends the line
LandsOn(t, c, ts, tlen, col) ==
    /\ c = BlockAt(t, ts + Min(col, tlen))
    /\ ts <= c
    /\ c <= ts + tlen

\* C27: in Normal mode j from a line that is not the last, and k from a line
\* that is not the first, put the cursor on the adjacent line at the column
\* min(current column, length of the target line), within that line and not
\* past the line break that ends it.
C27_VerticalMoveColumn ==
    /\ (Ran(<<"j">>) /\ NormalStart(Pre(1))
        /\ LineEndOf(Pre(1).text, Pre(1).selStart) < Len(Pre(1).text))
       => LET t == Pre(1).text
              c == Pre(1).selStart
              ts == LineEndOf(t, c) + 1
          IN  /\ text = t
              /\ LandsOn(t, selStart, ts, LineEndOf(t, ts) - ts,
                         c - LineStartOf(t, c))
    /\ (Ran(<<"k">>) /\ NormalStart(Pre(1))
        /\ LineStartOf(Pre(1).text, Pre(1).selStart) > 0)
       => LET t == Pre(1).text
              c == Pre(1).selStart
              te == LineStartOf(t, c) - 1
              ts == LineStartOf(t, te)
          IN  /\ text = t
              /\ LandsOn(t, selStart, ts, te - ts, c - LineStartOf(t, c))

\* the range [a, b) of t runs from the start of a line to the end of a line
WholeLines(t, a, b) ==
    /\ LineStartOf(t, a) = a
    /\ LineEndOf(t, b) = b

\* C28: in VisualLine mode, after V and after any j or k, the selection
\* covers whole lines: it starts at the start of a line and ends at the end
\* of a line, k putting the active end at the start of the line above and j
\* at the end of the line below.
C28_VisualLineWholeLines ==
    /\ (Ran(<<"V">>) /\ NormalStart(Pre(1)))
       => /\ mode = "visual-line"
          /\ WholeLines(text, selStart, selEnd)
    /\ \A m \in {"j", "k"} :
         (/\ Ran(<<m>>)
          /\ Pre(1).enabled
          /\ Pre(1).mode = "visual-line"
          /\ WholeLines(Pre(1).text, Pre(1).selStart, Pre(1).selEnd))
         => /\ WholeLines(text, selStart, selEnd)
            /\ (m = "k" /\ LineStartOf(text, Pre(1).cursor) > 0)
               => selStart = LineStartOf(text, LineStartOf(text, Pre(1).cursor) - 1)
            /\ (m = "j" /\ LineEndOf(text, Pre(1).cursor) < Len(text))
               => selEnd = LineEndOf(text, LineEndOf(text, Pre(1).cursor) + 1)

\* the selection is the block cursor of Normal mode: one character of a
\* buffer that is not empty, the empty range at 0 of an empty buffer
BlockCursor ==
    IF Len(text) = 0
    THEN selStart = 0 /\ selEnd = 0
    ELSE /\ selEnd = selStart + 1
         /\ 0 <= selStart
         /\ selEnd <= Len(text)

\* C29: right after every transition into Normal mode (enable, Escape in
\* Insert mode, Escape, y, d or p in a Visual mode) the selection is exactly
\* the character at the cursor, the last character when the cursor is at the
\* end of a buffer that is not empty, and the empty range at 0 when the buffer
\* is empty.
C29_BlockCursorOnNormal ==
    /\ Ran(<<"enable">>) => (mode = "normal" /\ BlockCursor)
    /\ \A k \in KeyNames :
         (/\ Ran(<<k>>)
          /\ Pre(1).enabled
          /\ Pre(1).mode # "normal"
          /\ mode = "normal")
         => BlockCursor

\* d in a Visual mode has deleted the end of the buffer and left some of it
C29_Witness ==
    /\ Ran(<<"d">>)
    /\ Pre(1).enabled
    /\ Pre(1).mode \in {"visual", "visual-line"}
    /\ Pre(1).selEnd = Len(Pre(1).text)
    /\ Pre(1).selStart < Pre(1).selEnd
    /\ mode = "normal"
    /\ Len(text) > 0

\* C30: while the reference to the textarea is absent, handleKeyDown changes
\* no state of the engine (mode, pending key, yank buffer, undo and redo
\* stacks), in every mode and for every key.
C30_NoTextareaNoChange ==
    \A k \in KeyNames : \A q \in {<<k>>, <<"detach", k>>} :
        (Ran(q) /\ ~Pre(Len(q)).textarea)
        => /\ mode = Pre(Len(q)).mode
           /\ pendingKey = Pre(Len(q)).pendingKey
           /\ yankBuffer = Pre(Len(q)).yankBuffer
           /\ undoStack = Pre(Len(q)).undoStack
           /\ redoStack = Pre(Len(q)).redoStack

\* C31: in Normal mode with no key pending, x is handled, saves one snapshot
\* of the text and selectionStart from before it, removes exactly the
\* character at selectionStart when there is one and nothing otherwise, and
\* leaves the yank buffer alone without calling onYank.
C31_DeleteCharFrame ==
    \A q \in {<<"x">>, <<"y", "y", "x">>} :
        (Ran(q) /\ NormalStart(Pre(Len(q))))
        => LET t0 == Pre(Len(q)).text
               pos == Pre(Len(q)).selStart
           IN  /\ handled
               /\ undoStack = Saved(Pre(Len(q)).undoStack,
                                    [text |-> t0, cursor |-> pos])
               /\ text = IF pos < Len(t0)
                         THEN Slice(t0, 0, pos) \o SliceFrom(t0, pos + 1)
                         ELSE t0
               /\ pos < Len(t0) => Len(text) = Len(t0) - 1
               /\ yankBuffer = Pre(Len(q)).yankBuffer
               /\ yanked = <<>>
               /\ mode = "normal"

\* x has deleted a character while the yank buffer held a line
C31_Witness ==
    /\ Ran(<<"y", "y", "x">>)
    /\ NormalStart(Pre(3))
    /\ Len(Pre(3).yankBuffer) > 0
    /\ Len(text) = Len(Pre(3).text) - 1
    /\ yankBuffer = Pre(3).yankBuffer

\* C32: in Normal mode p and Shift+P return true with the text, the selection
\* and the undo stack as they were and one more clipboard read in flight; the
\* completion saves the snapshot of the text and selectionStart it finds and
\* inserts at the selectionStart it finds, so that an x or an l handled in
\* between moves the place of the insertion.
C32_PasteIsDeferred ==
    /\ \A q \in {<<"p">>, <<"P">>, <<"y", "y", "p">>, <<"d", "d", "p">>} :
           (Ran(q) /\ NormalStart(Pre(1)))
           => /\ handled
              /\ text = Pre(Len(q)).text
              /\ selStart = Pre(Len(q)).selStart
              /\ selEnd = Pre(Len(q)).selEnd
              /\ undoStack = Pre(Len(q)).undoStack
              /\ Len(pasteQueue) = 1
    /\ \A q \in {<<"p", "x", "paste">>, <<"P", "l", "paste">>} :
           (Ran(q) /\ NormalStart(Pre(1)) /\ Len(PastedText) > 0)
           => LET t2 == Pre(3).text
                  pos == IF q[1] = "p"
                         THEN Min(Len(t2), Pre(3).selStart + 1)
                         ELSE Pre(3).selStart
              IN  /\ Pre(2).undoStack = Pre(1).undoStack
                  /\ undoStack = Saved(Pre(3).undoStack,
                                       [text |-> t2, cursor |-> Pre(3).selStart])
                  /\ text = Slice(t2, 0, pos) \o PastedText \o SliceFrom(t2, pos)
                  /\ selStart = pos
                  /\ Len(pasteQueue) = 0

\* Shift+P, then l has moved the cursor, then the clipboard's text was
\* inserted at the new place and not where the cursor was at the key press
C32_Witness ==
    /\ Ran(<<"P", "l", "paste">>)
    /\ NormalStart(Pre(1))
    /\ Len(PastedText) > 0
    /\ Pre(3).selStart # Pre(1).selStart
    /\ text # Slice(Pre(1).text, 0, Pre(1).selStart) \o PastedText
              \o SliceFrom(Pre(1).text, Pre(1).selStart)

\* the log of the debounced function up to now
DLog == debounced.log

\* every run of func comes right after the call whose arguments it gets, with
\* no other call or run in between, and not before that call's wait is over;
\* a call made when the wait of the call before it is over finds that call run
NoEarlyOrExtraRun ==
    \/ debounced.immediate
    \/ \A j \in 1..Len(DLog) :
           /\ DLog[j].kind = "run"
              => /\ j > 1
                 /\ DLog[j - 1].kind = "call"
                 /\ DLog[j - 1].args = DLog[j].args
                 /\ DLog[j].at >= DLog[j - 1].at + debounced.wait
           /\ (j > 1 /\ DLog[j].kind = "call" /\ DLog[j - 1].kind = "call")
              => DLog[j].at < DLog[j - 1].at + debounced.wait

\* the last call made has been run
LastCallRun ==
    \/ debounced.immediate
    \/ Len(DLog) = 0
    \/ DLog[Len(DLog)].kind = "run"

VisualStart(v) ==
    /\ v.enabled
    /\ v.mode \in {"visual", "visual-line"}
    /\ v.visualStart # NoPos
    /\ v.pendingKey = NoKey
    /\ v.inflight = 0

\* C34: in Visual or VisualLine mode with the anchor a, g and then g sets the
\* selection to [0, a) with the direction backward and leaves no key pending,
\* G sets the selection to [a, length of the buffer) with the direction
\* forward; both are handled and keep the mode.
C34_VisualToStartAndEnd ==
    /\ (Ran(<<"g", "g">>) /\ VisualStart(Pre(1)))
       => /\ handled
          /\ Pre(2).pendingKey = "g"
          /\ pendingKey = NoKey
          /\ selStart = 0
          /\ selEnd = Pre(1).visualStart
          /\ selDir = "backward"
          /\ mode = Pre(1).mode
          /\ text = Pre(1).text
    /\ \A q \in {<<"G">>, <<"Caps-G">>} :
           (Ran(q) /\ VisualStart(Pre(1)))
           => /\ handled
              /\ selStart = Pre(1).visualStart
              /\ selEnd = Len(text)
              /\ selDir = "forward"
              /\ mode = Pre(1).mode
              /\ text = Pre(1).text

\* C34, with the direction stated for an anchor at offset 0 as well: g and
\* then g sets the selection to [0, a), backward when a > 0 and forward when
\* a = 0, where the selection is empty; G sets it to [a, length of the
\* buffer), forward; both are handled, leave no key pending and keep the mode.
C34_VisualToStartAndEnd_Amended ==
    /\ (Ran(<<"g", "g">>) /\ VisualStart(Pre(1)))
       => /\ handled
          /\ Pre(2).pendingKey = "g"
          /\ pendingKey = NoKey
          /\ selStart = 0
          /\ selEnd = Pre(1).visualStart
          /\ selDir = IF Pre(1).visualStart > 0 THEN "backward" ELSE "forward"
          /\ mode = Pre(1).mode
          /\ text = Pre(1).text
    /\ \A q \in {<<"G">>, <<"Caps-G">>} :
           (Ran(q) /\ VisualStart(Pre(1)))
           => /\ handled
              /\ pendingKey = NoKey
              /\ selStart = Pre(1).visualStart
              /\ selEnd = Len(text)
              /\ selDir = "forward"
              /\ mode = Pre(1).mode
              /\ text = Pre(1).text

\* g and g have run in VisualLine mode with the anchor on the second line
C34_Witness ==
    /\ Ran(<<"g", "g">>)
    /\ VisualStart(Pre(1))
    /\ Pre(1).mode = "visual-line"
    /\ Pre(1).visualStart > 0
    /\ selStart = 0
    /\ selEnd = Pre(1).visualStart
    /\ selDir = "backward"

\* C35: in Visual and VisualLine mode, after v or Shift+V and any sequence of
\* h, j, k, l, gg and G, the anchor is selectionStart or selectionEnd, the
\* direction is backward exactly when the active end that
\* getVisualAnchorAndActive infers is before the anchor, and that active end
\* is the bound that is not the anchor.
C35_AnchorIsABound ==
    (enabled /\ mode \in {"visual", "visual-line"})
    => LET anchor == visualStart
           active == getVisualAnchorAndActive(S).active
       IN  /\ anchor # NoPos
           /\ anchor = selStart \/ anchor = selEnd
           /\ (selDir = "backward") <=> (active < anchor)
           /\ (anchor = selStart /\ anchor # selEnd) => active = selEnd
           /\ (anchor = selEnd /\ anchor # selStart) => active = selStart

\* a selection of two characters or more that was extended to the left of
\* the anchor
C35_Witness ==
    /\ enabled
    /\ mode = "visual"
    /\ visualStart = selEnd
    /\ selEnd - selStart >= 2
    /\ selDir = "backward"

\* the key named k yanks when pressed in the state v: y or d in a Visual
\* mode, or the second y of yy or d of dd in Normal mode
Yanks(v, k) ==
    /\ v.enabled
    /\ k \in {"y", "d"}
    /\ \/ v.mode \in {"visual", "visual-line"}
       \/ v.mode = "normal" /\ v.pendingKey = k

\* the text a yanking key covers in the state v: the selection in the Visual
\* modes, in Normal mode the line of the cursor with the line break that ends
\* it when it is not the last line
Covered(v) ==
    IF v.mode \in {"visual", "visual-line"}
    THEN Slice(v.text, v.selStart, v.selEnd)
    ELSE LET lineEnd == LineEndOf(v.text, v.selStart)
         IN  Slice(v.text, LineStartOf(v.text, v.selStart),
                   IF lineEnd < Len(v.text) THEN lineEnd + 1 ELSE lineEnd)

\* C36: yy, dd, Visual y and Visual d set the yank buffer to the text they
\* cover and call onYank once with it; every other key event leaves the yank
\* buffer as it was and does not call onYank; the yank buffer starts empty.
C36_YankBufferFrame ==
    /\ (steps = 0 /\ watch = Idle) => yankBuffer = <<>>
    /\ \A q \in {<<"y", "y">>, <<"d", "d">>} :
           (Ran(q) /\ NormalStart(Pre(1)))
           => /\ Pre(2).yankBuffer = Pre(1).yankBuffer
              /\ yankBuffer = Covered(Pre(1))
              /\ yanked = <<Covered(Pre(1))>>
    /\ \A k \in KeyNames :
           Ran(<<k>>)
           => IF Yanks(Pre(1), k)
              THEN /\ yankBuffer = Covered(Pre(1))
                   /\ yanked = <<Covered(Pre(1))>>
              ELSE /\ yankBuffer = Pre(1).yankBuffer
                   /\ yanked = <<>>

\* dd on a line that is not the last has yanked the line with its line
\* break, and nothing else
C36_Witness ==
    /\ Ran(<<"d", "d">>)
    /\ NormalStart(Pre(1))
    /\ Len(yankBuffer) = 2
    /\ yankBuffer[2] = NL
    /\ Len(text) = Len(Pre(1).text) - 2
    /\ Len(text) > 0
    /\ yanked = <<yankBuffer>>

\* C37: in Normal mode with a snapshot on the undo stack, u and then Shift+U
\* gives back the text and the selectionStart from before u and leaves both
\* stacks as long as they were; u and Shift+U each leave the sum of the
\* lengths of the two stacks as it was.
C37_UndoThenRedo ==
    /\ (/\ Ran(<<"u", "U">>)
        /\ NormalStart(Pre(1))
        /\ Len(Pre(1).undoStack) > 0)
       => /\ Len(Pre(2).undoStack) = Len(Pre(1).undoStack) - 1
          /\ Len(Pre(2).redoStack) = Len(Pre(1).redoStack) + 1
          /\ text = Pre(1).text
          /\ selStart = Pre(1).selStart
          /\ Len(undoStack) = Len(Pre(1).undoStack)
          /\ Len(redoStack) = Len(Pre(1).redoStack)
    /\ \A k \in {"u", "U", "Caps-U"} :
           (Ran(<<k>>) /\ NormalStart(Pre(1)))
           => Len(undoStack) + Len(redoStack)
              = Len(Pre(1).undoStack) + Len(Pre(1).redoStack)

\* u has taken back a deletion and Shift+U has made it again
C37_Witness ==
    /\ Ran(<<"u", "U">>)
    /\ NormalStart(Pre(1))
    /\ Len(Pre(1).undoStack) > 0
    /\ Pre(2).text # Pre(1).text
    /\ text = Pre(1).text
    /\ Len(text) > 0

\* C38: in every state, those after cleanup and after setEnabled(false)
\* included, a key is pending exactly when a pending-key timer is armed, and
\* no more than one timer is armed; so that a pending key is cleared by the
\* next key or by the timer.
C38_PendingIffArmed ==
    /\ armed <= 1
    /\ (pendingKey # NoKey) <=> (armed = 1)

\* C39: after every key event that is handled and leaves the engine in Normal
\* mode on a buffer that is not empty, and after a p or Shift+P has completed
\* there, the selection is exactly one character wide.
C39_BlockCursorKept ==
    /\ \A k \in KeyNames :
           (/\ Ran(<<k>>)
            /\ Pre(1).enabled
            /\ handled
            /\ mode = "normal"
            /\ Len(text) > 0)
           => selEnd = selStart + 1
    /\ \A q \in {<<"d", "d">>, <<"p", "paste">>, <<"P", "paste">>} :
           (/\ Ran(q)
            /\ NormalStart(Pre(1))
            /\ mode = "normal"
            /\ Len(text) > 0)
           => selEnd = selStart + 1

\* the last event of the watched window and the state before it
LastEvent == IF Len(watch.seq) = 0 THEN "none" ELSE watch.seq[Len(watch.seq)]

Before == watch.pre[Len(watch.pre)]

\* p and Shift+P in Normal mode start one clipboard read, and a completion
\* ends one
OneReadPerPress ==
    /\ (LastEvent \in {"p", "P"} /\ NormalStart([Before EXCEPT !.inflight = 0]))
       => Len(pasteQueue) = Before.inflight + 1
    /\ LastEvent = "paste" => Len(pasteQueue) = Before.inflight - 1

\* a completion whose text is not empty saves the snapshot of the buffer and
\* the selectionStart it finds and inserts the text once; a completion with
\* neither a clipboard text nor a yanked text changes nothing
CompletionInsertsOnce ==
    LastEvent = "paste"
    => IF Len(PastedText) > 0
       THEN /\ undoStack = Saved(Before.undoStack,
                                 [text |-> Before.text, cursor |-> Before.selStart])
            /\ redoStack = <<>>
            /\ Spliced(Before.text, text, PastedText, FALSE)
            /\ Len(text) = Len(Before.text) + Len(PastedText)
       ELSE /\ text = Before.text
            /\ selStart = Before.selStart
            /\ selEnd = Before.selEnd
            /\ undoStack = Before.undoStack
            /\ redoStack = Before.redoStack
            /\ yankBuffer = Before.yankBuffer
            /\ mode = Before.mode

\* u right after a completion that inserted takes exactly the inserted text
\* out again
UndoRemovesPasted ==
    (watch.seq = <<"paste", "u">> /\ Pre(2).text # Pre(1).text)
    => /\ text = Pre(1).text
       /\ selStart = Pre(1).selStart

\* C40: every p or Shift+P in Normal mode is followed in the end by exactly one
\* completion; the completion inserts the text once and saves one snapshot,
\* that of the buffer right before the insertion, so that a u that follows
\* removes exactly the pasted text, when the clipboard's or the yanked text is
\* not empty, and changes nothing, the redo stack included, when both are.
C40_PasteCompletesOnce ==
    /\ [](OneReadPerPress /\ CompletionInsertsOnce /\ UndoRemovesPasted)
    /\ <>[](Len(pasteQueue) = 0)

\* a yanked line was pasted by a completion whose clipboard read failed, and
\* u has taken it out again
C40_Witness ==
    /\ watch.seq = <<"paste", "u">>
    /\ Len(yankBuffer) > 0
    /\ Len(Pre(2).text) = Len(Pre(1).text) + Len(yankBuffer)
    /\ text = Pre(1).text
    /\ Len(pasteQueue) = 0

=============================================================================
